---- MODULE Spec2Model ----
(***************************************************************************)
(* A model of diffbir/model/cldm.py: the ControlLDM facade that owns the   *)
(* denoiser (unet), the image autoencoder (vae), the text encoder (clip)   *)
(* and the control branch (controlnet).                                    *)
(*                                                                         *)
(* A tensor is a record [size, data]: size is the shape (a sequence of     *)
(* dimensions) and data maps every index tuple of that shape to an         *)
(* integer element.  dtype and device are not modelled.                    *)
(***************************************************************************)
EXTENDS Integers, Sequences, FiniteSets, TLC

VARIABLES
    state_dict,      \* module name -> (local key -> tensor): each submodule's state
    training,        \* module name -> BOOLEAN: nn.Module.training ("ldm" is the facade)
    train,           \* module name -> which function the attribute module.train is
    requires_grad,   \* module name -> (local key -> BOOLEAN)
    scale_factor,    \* self.scale_factor
    control_scales,  \* self.control_scales
    last,            \* the last call on the facade: its arguments, outcome and result
    calls,           \* what the last call handed to the collaborating sub-networks
    loaded,          \* load_pretrained_sd has returned at least once
    cond_log         \* the prepare_condition results since the facade last changed

vars == <<state_dict, training, train, requires_grad, scale_factor,
          control_scales, last, calls, loaded, cond_log>>

-----------------------------------------------------------------------------
(* Tensors *)

RECURSIVE SeqMax(_)
SeqMax(s) == IF s = <<>> THEN 0
             ELSE LET m == SeqMax(Tail(s)) IN IF Head(s) > m THEN Head(s) ELSE m

\* The index tuples of a tensor of shape size (one tuple, <<>>, for a scalar).
Indices(size) ==
    {idx \in [1..Len(size) -> 1..SeqMax(size)] :
        \A i \in 1..Len(size) : idx[i] <= size[i]}

\* The position of idx in row-major order, from 1.
RECURSIVE Offset(_, _)
Offset(size, idx) ==
    IF size = <<>> THEN 1
    ELSE LET n == Len(size)
         IN  (Offset(SubSeq(size, 1, n - 1), SubSeq(idx, 1, n - 1)) - 1) * size[n] + idx[n]

\* A tensor of the given shape with distinct non-zero elements drawn from seed.
Fill(size, seed) ==
    [size |-> size, data |-> [idx \in Indices(size) |-> 100 * seed + Offset(size, idx)]]

\* Tensor.clone(): a tensor of equal shape and elements.
clone(t) == [size |-> t.size, data |-> [idx \in DOMAIN t.data |-> t.data[idx]]]

\* A torch.zeros that takes a negative dimension for an empty one.
zeros_ok_lenient(size) == TRUE

\* torch.zeros(size): raises for a negative dimension.
zeros_ok(size) == \A i \in 1..Len(size) : size[i] >= 0
zeros(size) == [size |-> size, data |-> [idx \in Indices(size) |-> 0]]

\* Tensor.size(1): raises IndexError below two dimensions.
size1_ok(t) == Len(t.size) >= 2

\* oc, _, h, w = this.size(): raises ValueError unless there are four dimensions.
unpack4_ok(t) == Len(t.size) = 4

\* torch.cat((a, b), dim=1): both need the same number of dimensions and equal
\* sizes in every dimension but dim 1.
cat1_ok(a, b) ==
    /\ Len(a.size) = Len(b.size)
    /\ Len(a.size) >= 2
    /\ \A i \in 1..Len(a.size) : i # 2 => a.size[i] = b.size[i]
\* A concatenation that puts the second tensor first.
cat1_swapped(a, b) ==
    LET size == [a.size EXCEPT ![2] = a.size[2] + b.size[2]]
    IN  [size |-> size,
         data |-> [idx \in Indices(size) |->
                     IF idx[2] <= b.size[2] THEN b.data[idx]
                     ELSE a.data[[idx EXCEPT ![2] = idx[2] - b.size[2]]]]]

cat1(a, b) ==
    LET size == [a.size EXCEPT ![2] = a.size[2] + b.size[2]]
    IN  [size |-> size,
         data |-> [idx \in Indices(size) |->
                     IF idx[2] <= a.size[2] THEN a.data[idx]
                     ELSE b.data[[idx EXCEPT ![2] = idx[2] - a.size[2]]]]]

-----------------------------------------------------------------------------
(* nn.Module: the state dictionary and the train/eval mode *)

Submodules == {"unet", "vae", "clip", "controlnet"}

\* No call made on any sub-network.
NoCalls == [unet |-> {}, controlnet |-> {}, vae |-> {}, clip |-> {}]

\* A load_state_dict that is strict whatever it is asked.
load_state_dict_always_strict(own, init_sd, strict) ==
    LET copied   == {k \in DOMAIN own : k \in DOMAIN init_sd /\ init_sd[k].size = own[k].size}
        mismatch == {k \in DOMAIN own : k \in DOMAIN init_sd /\ init_sd[k].size # own[k].size}
        absent   == {k \in DOMAIN own : k \notin DOMAIN init_sd}
        extra    == {k \in DOMAIN init_sd : k \notin DOMAIN own}
    IN  [ok |-> mismatch = {} /\ absent = {} /\ extra = {},
         sd |-> [k \in DOMAIN own |-> IF k \in copied THEN clone(init_sd[k]) ELSE own[k]]]

\* Module.load_state_dict(init_sd, strict) on a module whose state is own: a key
\* of own found in init_sd with the same size is copied; a size mismatch, and
\* under strict a missing or an unexpected key, is an error raised once every
\* key has been visited.
load_state_dict(own, init_sd, strict) ==
    LET copied   == {k \in DOMAIN own : k \in DOMAIN init_sd /\ init_sd[k].size = own[k].size}
        mismatch == {k \in DOMAIN own : k \in DOMAIN init_sd /\ init_sd[k].size # own[k].size}
        absent   == {k \in DOMAIN own : k \notin DOMAIN init_sd}
        extra    == {k \in DOMAIN init_sd : k \notin DOMAIN own}
    IN  [ok |-> mismatch = {} /\ (strict => absent = {} /\ extra = {}),
         sd |-> [k \in DOMAIN own |-> IF k \in copied THEN clone(init_sd[k]) ELSE own[k]]]

\* nn.Module.train(mode) of a submodule: sets its training flag.
Module_train(m, mode, tr) == [tr EXCEPT ![m] = mode]

\* A disabled_train that still switches the mode.
disabled_train_switching(m, mode, tr) == Module_train(m, mode, tr)

\* disabled_train: changes nothing.
disabled_train(m, mode, tr) == tr

\* module.train(mode), through whatever the attribute train is on that module.
call_train(m, mode, tr, tf) ==
    IF tf[m] = "disabled_train" THEN disabled_train(m, mode, tr)
    ELSE Module_train(m, mode, tr)

-----------------------------------------------------------------------------
(* ControlLDM.load_pretrained_sd *)

module_map == [unet |-> "model.diffusion_model",
               vae  |-> "first_stage_model",
               clip |-> "cond_stage_model"]

modules == <<"unet", "vae", "clip">>

\* A join that takes the denoiser's prefix for every submodule.
target_key_one_prefix(name, key) == module_map["unet"] \o "." \o key

\* ".".join([module_map[name], key])
target_key(name, key) == module_map[name] \o "." \o key

\* The loop over modules from the i-th on: acc = [sds, used, missing, ok].
RECURSIVE load_modules(_, _, _)
load_modules(i, sd, acc) ==
    IF i > Len(modules) \/ ~acc.ok THEN acc
    ELSE LET name       == modules[i]
             scratch_sd == acc.sds[name]
             present    == {key \in DOMAIN scratch_sd : target_key(name, key) \in DOMAIN sd}
             init_sd    == [key \in present |-> clone(sd[target_key(name, key)])]
             res        == load_state_dict(scratch_sd, init_sd, FALSE)
         IN  load_modules(i + 1, sd,
                 [sds     |-> [acc.sds EXCEPT ![name] = res.sd],
                  used    |-> acc.used \cup {target_key(name, key) : key \in present},
                  missing |-> acc.missing \cup
                              {target_key(name, key) : key \in DOMAIN scratch_sd \ present},
                  ok      |-> res.ok])

freeze_order == <<"vae", "clip", "unet">>

\* module.eval(); module.train = disabled_train; p.requires_grad = False
RECURSIVE freeze(_, _)
freeze(i, st) ==
    IF i > Len(freeze_order) THEN st
    ELSE LET m == freeze_order[i]
         IN  freeze(i + 1,
                 [training      |-> call_train(m, FALSE, st.training, st.train),
                  train         |-> [st.train EXCEPT ![m] = "disabled_train"],
                  requires_grad |-> [st.requires_grad EXCEPT
                                       ![m] = [k \in DOMAIN st.requires_grad[m] |-> FALSE]]])

\* An unused set that forgets to take the consumed keys out.
unused_keys_all(sd, used) == DOMAIN sd

\* unused = set(sd.keys()) - used
unused_keys(sd, used) == DOMAIN sd \ used

LoadPretrainedSd(sd) ==
    LET res == load_modules(1, sd, [sds |-> state_dict, used |-> {}, missing |-> {}, ok |-> TRUE])
        fr  == freeze(1, [training |-> training, train |-> train,
                          requires_grad |-> requires_grad])
    IN  /\ state_dict' = res.sds
        /\ IF res.ok
           THEN /\ training' = fr.training
                /\ train' = fr.train
                /\ requires_grad' = fr.requires_grad
                /\ loaded' = TRUE
                /\ last' = [op |-> "load_pretrained_sd", sd |-> sd, pre |-> state_dict,
                            outcome |-> "returned", used |-> res.used,
                            unused |-> unused_keys(sd, res.used), missing |-> res.missing]
           ELSE /\ UNCHANGED <<training, train, requires_grad, loaded>>
                /\ last' = [op |-> "load_pretrained_sd", sd |-> sd, pre |-> state_dict,
                            outcome |-> "raised", used |-> {}, unused |-> {}, missing |-> {}]
        /\ cond_log' = {}
        /\ calls' = NoCalls
        /\ UNCHANGED <<scale_factor, control_scales>>

-----------------------------------------------------------------------------
(* ControlLDM.load_controlnet_from_ckpt and load_controlnet_from_unet *)

LoadControlnetFromCkpt(sd) ==
    LET res == load_state_dict(state_dict["controlnet"], sd, TRUE)
    IN  /\ state_dict' = [state_dict EXCEPT !["controlnet"] = res.sd]
        /\ last' = [op |-> "load_controlnet_from_ckpt", sd |-> sd, pre |-> state_dict,
                    outcome |-> IF res.ok THEN "returned" ELSE "raised"]
        /\ cond_log' = {}
        /\ calls' = NoCalls
        /\ UNCHANGED <<training, train, requires_grad, scale_factor, control_scales, loaded>>

\* An initial value that keeps the control branch's own tensor.
init_key_own(this, target) == [ok |-> TRUE, value |-> clone(this), padded |-> FALSE]

\* The body of the loop for a key found in unet_sd: [ok, value, padded], ok
\* false when one of the tensor operations raises.
init_key(this, target) ==
    IF this.size = target.size
    THEN [ok |-> TRUE, value |-> clone(target), padded |-> FALSE]
    ELSE IF ~(size1_ok(this) /\ size1_ok(target) /\ unpack4_ok(this))
    THEN [ok |-> FALSE, value |-> this, padded |-> FALSE]
    ELSE LET d_ic == this.size[2] - target.size[2]
             zsize == <<this.size[1], d_ic, this.size[3], this.size[4]>>
         IN  IF zeros_ok(zsize) /\ cat1_ok(target, zeros(zsize))
             THEN [ok |-> TRUE, value |-> cat1(target, zeros(zsize)), padded |-> TRUE]
             ELSE [ok |-> FALSE, value |-> this, padded |-> FALSE]

\* The loop over scratch_sd.  Nothing of the facade changes inside the loop, so
\* the order of the keys does not show in its result.
init_from_unet(unet_sd, scratch_sd) ==
    LET shared == DOMAIN scratch_sd \cap DOMAIN unet_sd
        per    == [key \in shared |-> init_key(scratch_sd[key], unet_sd[key])]
    IN  [ok |-> \A key \in shared : per[key].ok,
         init_sd |-> [key \in DOMAIN scratch_sd |->
                        IF key \in shared THEN per[key].value ELSE clone(scratch_sd[key])],
         init_with_new_zero |-> {key \in shared : per[key].padded},
         init_with_scratch  |-> DOMAIN scratch_sd \ shared]

LoadControlnetFromUnet ==
    LET r   == init_from_unet(state_dict["unet"], state_dict["controlnet"])
        res == load_state_dict(state_dict["controlnet"], r.init_sd, TRUE)
    IN  /\ IF r.ok
           THEN /\ state_dict' = [state_dict EXCEPT !["controlnet"] = res.sd]
                /\ last' = [op |-> "load_controlnet_from_unet", pre |-> state_dict,
                            outcome |-> IF res.ok THEN "returned" ELSE "raised",
                            init_with_new_zero |-> IF res.ok THEN r.init_with_new_zero ELSE {},
                            init_with_scratch |-> IF res.ok THEN r.init_with_scratch ELSE {}]
           ELSE /\ UNCHANGED state_dict
                /\ last' = [op |-> "load_controlnet_from_unet", pre |-> state_dict,
                            outcome |-> "raised",
                            init_with_new_zero |-> {}, init_with_scratch |-> {}]
        /\ cond_log' = {}
        /\ calls' = NoCalls
        /\ UNCHANGED <<training, train, requires_grad, scale_factor, control_scales, loaded>>

-----------------------------------------------------------------------------
(* The sub-networks' domain operations.  An image, a latent or an embedding is *)
(* the sequence of its elements.                                              *)

RECURSIVE Sum(_)
Sum(f) == IF DOMAIN f = {} THEN 0
          ELSE LET a == CHOOSE a \in DOMAIN f : TRUE
               IN  f[a] + Sum([b \in DOMAIN f \ {a} |-> f[b]])

RECURSIVE SeqSum(_)
SeqSum(s) == IF Len(s) = 0 THEN 0 ELSE s[Len(s)] + SeqSum(SubSeq(s, 1, Len(s) - 1))

\* What a sub-network's output takes from its weights.
Digest(sd) == Sum([k \in DOMAIN sd |-> Sum(sd[k].data)]) % 5

\* AutoencoderKL.encode(x): a distribution whose mean at each position takes the
\* position and its left neighbour (a receptive field wider than one element).
vae_encode_mean(x) ==
    LET d == Digest(state_dict["vae"])
    IN  [j \in 1..Len(x) |-> x[j] + (IF j > 1 THEN x[j - 1] ELSE 0) + d]

\* .mode() is the mean; .sample() adds the noise drawn for the call.
vae_encode_mode(x, noise) == vae_encode_mean(x)
vae_encode_sample(x, noise) ==
    LET mean == vae_encode_mean(x) IN [j \in 1..Len(x) |-> mean[j] + noise]

\* AutoencoderKL.decode(z)
vae_decode_fn(z) ==
    LET d == Digest(state_dict["vae"]) IN [j \in 1..Len(z) |-> z[j] - d]

\* FrozenOpenCLIPEmbedder.encode(txt): one element per prompt.
clip_encode(txt) ==
    LET d == Digest(state_dict["clip"])
    IN  [j \in 1..Len(txt) |-> (IF txt[j] = "" THEN 0 ELSE 3) + d]

\* ControlNet.forward(x, hint, timesteps, context): one signal per output tap.
controlnet_run(x, hint, timesteps, context) ==
    LET d == Digest(state_dict["controlnet"])
    IN  [i \in 1..13 |->
            [j \in 1..Len(x) |-> x[j] + hint[j] + timesteps + context[1] + i + d]]

\* ControlledUnetModel.forward(x, timesteps, context, control, only_mid_control):
\* the signals are added in, each at its own tap; under only_mid_control only
\* the last one (the middle block's) is.
unet_run(x, timesteps, context, control, only_mid_control) ==
    LET d == Digest(state_dict["unet"])
    IN  [j \in 1..Len(x) |->
            x[j] + timesteps + context[1] + d
            + (IF only_mid_control
               THEN (IF Len(control) > 0 THEN control[Len(control)][j] ELSE 0)
               ELSE SeqSum([i \in 1..Len(control) |-> i * control[i][j]]))]

-----------------------------------------------------------------------------
(* make_tiled_fn *)

\* Where the tiles start: every tile_stride, the last tile moved back inside.
tile_starts(len, tile_size, tile_stride) ==
    IF tile_size >= len THEN {1}
    ELSE {st \in 1..(len - tile_size + 1) : (st - 1) % tile_stride = 0}
         \cup {len - tile_size + 1}

\* The tiled function's value on x, per[st] being fn's output on the tile that
\* starts at st: overlapping outputs are averaged.
tiled_output(x, tile_size, tile_stride, per) ==
    LET starts == tile_starts(Len(x), tile_size, tile_stride)
        size   == IF tile_size >= Len(x) THEN Len(x) ELSE tile_size
        cover(j) == {st \in starts : st <= j /\ j < st + size}
    IN  [j \in 1..Len(x) |->
            Sum([st \in cover(j) |-> per[st][j - st + 1]]) \div Cardinality(cover(j))]

tile_of(x, st, tile_size) ==
    SubSeq(x, st, IF st + tile_size - 1 > Len(x) THEN Len(x) ELSE st + tile_size - 1)

-----------------------------------------------------------------------------
(* ControlLDM.vae_encode, vae_decode, prepare_condition, forward *)

\* A vae_encode that takes the stochastic sample when asked for the mode.
vae_encode_fn_swapped(sample, x, noise) ==
    IF sample THEN [fn |-> "encode.mode", out |-> vae_encode_mode(x, noise)]
    ELSE [fn |-> "encode.sample", out |-> vae_encode_sample(x, noise)]

\* vae_encode_fn: lambda x: self.vae.encode(x).sample() or .mode(); fn names
\* the method of the distribution that is called, out is its value.
vae_encode_fn(sample, x, noise) ==
    IF sample THEN [fn |-> "encode.sample", out |-> vae_encode_sample(x, noise)]
    ELSE [fn |-> "encode.mode", out |-> vae_encode_mode(x, noise)]

\* vae_encode(image, sample, tiled, tile_size, tile_stride) with the noise the
\* encoder draws in the call.
\* [z, calls]: the latent and the calls made on the image encoder.
vae_encode(image, sample, tiled, tile_size, tile_stride, noise) ==
    IF tiled
    THEN LET starts == tile_starts(Len(image), tile_size, tile_stride)
             enc == [st \in starts |->
                       vae_encode_fn(sample, tile_of(image, st, tile_size), noise)]
             out == tiled_output(image, tile_size, tile_stride,
                                 [st \in starts |-> enc[st].out])
         IN  [z |-> [j \in 1..Len(image) |-> out[j] * scale_factor],
              calls |-> {[fn |-> enc[st].fn, x |-> tile_of(image, st, tile_size),
                          scale_type |-> "down", scale |-> 8, channel |-> 4] : st \in starts}]
    ELSE LET enc == vae_encode_fn(sample, image, noise)
         IN  [z |-> [j \in 1..Len(image) |-> enc.out[j] * scale_factor],
              calls |-> {[fn |-> enc.fn, x |-> image,
                          scale_type |-> "none", scale |-> 1, channel |-> 0]}]

\* vae_decode(z, tiled, tile_size, tile_stride)
vae_decode(z, tiled, tile_size, tile_stride) ==
    LET zin == [j \in 1..Len(z) |-> z[j] \div scale_factor]
    IN  IF tiled
        THEN LET starts == tile_starts(Len(zin), tile_size, tile_stride)
                 per == [st \in starts |-> vae_decode_fn(tile_of(zin, st, tile_size))]
             IN  [image |-> tiled_output(zin, tile_size, tile_stride, per),
                  calls |-> {[fn |-> "decode", x |-> tile_of(zin, st, tile_size),
                              scale_type |-> "up", scale |-> 8, channel |-> 3] : st \in starts}]
        ELSE [image |-> vae_decode_fn(zin),
              calls |-> {[fn |-> "decode", x |-> zin,
                          scale_type |-> "none", scale |-> 1, channel |-> 0]}]

VaeEncode(image, sample, tiled, tile_size, tile_stride, noise) ==
    LET r == vae_encode(image, sample, tiled, tile_size, tile_stride, noise)
    IN  /\ last' = [op |-> "vae_encode", image |-> image, sample |-> sample,
                    tiled |-> tiled, tile_size |-> tile_size, tile_stride |-> tile_stride,
                    outcome |-> "returned", z |-> r.z]
        /\ calls' = [NoCalls EXCEPT !["vae"] = r.calls]
        /\ UNCHANGED <<state_dict, training, train, requires_grad, scale_factor,
                       control_scales, loaded, cond_log>>

VaeDecode(z, tiled, tile_size, tile_stride) ==
    LET r == vae_decode(z, tiled, tile_size, tile_stride)
    IN  /\ last' = [op |-> "vae_decode", z |-> z,
                    tiled |-> tiled, tile_size |-> tile_size, tile_stride |-> tile_stride,
                    outcome |-> "returned", image |-> r.image]
        /\ calls' = [NoCalls EXCEPT !["vae"] = r.calls]
        /\ UNCHANGED <<state_dict, training, train, requires_grad, scale_factor,
                       control_scales, loaded, cond_log>>

\* cond_img * 2 - 1
rescale(cond_img) == [j \in 1..Len(cond_img) |-> cond_img[j] * 2 - 1]

\* prepare_condition(cond_img, txt, tiled, tile_size, tile_stride); cond_log
\* keeps the first call's arguments and result since the facade last changed,
\* and last.repeat tells whether that call had these arguments.
PrepareCondition(cond_img, txt, tiled, tile_size, tile_stride, noise) ==
    LET r    == vae_encode(rescale(cond_img), FALSE, tiled, tile_size, tile_stride, noise)
        cond == [c_txt |-> clip_encode(txt), c_img |-> r.z]
        args == [cond_img |-> cond_img, txt |-> txt, tiled |-> tiled,
                 tile_size |-> tile_size, tile_stride |-> tile_stride]
    IN  /\ last' = [op |-> "prepare_condition", args |-> args,
                    repeat |-> \E e \in cond_log : e.args = args,
                    outcome |-> "returned", cond |-> cond]
        /\ calls' = [NoCalls EXCEPT !["vae"] = r.calls, !["clip"] = {[txt |-> txt]}]
        /\ cond_log' = IF cond_log = {} THEN {[args |-> args, cond |-> cond]} ELSE cond_log
        /\ UNCHANGED <<state_dict, training, train, requires_grad, scale_factor,
                       control_scales, loaded>>

\* A zip that starts the second sequence one element late.
zip_shifted(a, b) ==
    [i \in 1..(IF Len(a) <= Len(b) - 1 THEN Len(a) ELSE Len(b) - 1) |-> <<a[i], b[i + 1]>>]

\* zip(a, b): pairs up to the shorter length.
zip(a, b) == [i \in 1..(IF Len(a) <= Len(b) THEN Len(a) ELSE Len(b)) |-> <<a[i], b[i]>>]

\* A scaling that hands the signals on as they are.
scale_controls_unscaled(control, scales) == control

\* [c * scale for c, scale in zip(control, self.control_scales)]
scale_controls(control, scales) ==
    LET pairs == zip(control, scales)
    IN  [i \in 1..Len(pairs) |->
            [j \in 1..Len(pairs[i][1]) |-> pairs[i][1][j] * pairs[i][2]]]

\* forward(x_noisy, t, cond)
Forward(x_noisy, t, cond) ==
    LET c_txt   == cond.c_txt
        c_img   == cond.c_img
        out     == controlnet_run(x_noisy, c_img, t, c_txt)
        control == scale_controls(out, control_scales)
        eps     == unet_run(x_noisy, t, c_txt, control, FALSE)
    IN  /\ last' = [op |-> "forward", x_noisy |-> x_noisy, t |-> t, cond |-> cond,
                    outcome |-> "returned", eps |-> eps]
        /\ calls' = [NoCalls EXCEPT
                        !["controlnet"] = {[x |-> x_noisy, hint |-> c_img, timesteps |-> t,
                                            context |-> c_txt, out |-> out]},
                        !["unet"] = {[x |-> x_noisy, timesteps |-> t, context |-> c_txt,
                                      control |-> control, only_mid_control |-> FALSE]}]
        /\ UNCHANGED <<state_dict, training, train, requires_grad, scale_factor,
                       control_scales, loaded, cond_log>>

-----------------------------------------------------------------------------
(* The caller's changes: the control scales and the train/eval mode *)

\* ldm.control_scales = [v] * 13
SetControlScales(v) ==
    /\ control_scales' = [i \in 1..13 |-> v]
    /\ last' = [op |-> "set_control_scales", outcome |-> "returned"]
    /\ calls' = NoCalls
    /\ UNCHANGED <<state_dict, training, train, requires_grad, scale_factor,
                   loaded, cond_log>>

\* ldm.control_scales[i] = v
SetControlScale(i, v) ==
    /\ control_scales' = [control_scales EXCEPT ![i] = v]
    /\ last' = [op |-> "set_control_scales", outcome |-> "returned"]
    /\ calls' = NoCalls
    /\ UNCHANGED <<state_dict, training, train, requires_grad, scale_factor,
                   loaded, cond_log>>

\* ldm.train(mode): nn.Module.train on the facade sets its own flag and calls
\* train(mode) on each child.
RECURSIVE train_children(_, _, _)
train_children(ms, mode, tr) ==
    IF ms = {} THEN tr
    ELSE LET m == CHOOSE m \in ms : TRUE
         IN  train_children(ms \ {m}, mode, call_train(m, mode, tr, train))

FacadeTrain(mode) ==
    /\ training' = train_children(Submodules, mode, [training EXCEPT !["ldm"] = mode])
    /\ last' = [op |-> "train", on |-> "ldm", mode |-> mode, outcome |-> "returned"]
    /\ calls' = NoCalls
    /\ UNCHANGED <<state_dict, train, requires_grad, scale_factor, control_scales,
                   loaded, cond_log>>

\* ldm.<m>.train(mode) or, mode False, ldm.<m>.eval()
SubmoduleTrain(m, mode) ==
    /\ training' = call_train(m, mode, training, train)
    /\ last' = [op |-> "train", on |-> m, mode |-> mode, outcome |-> "returned"]
    /\ calls' = NoCalls
    /\ UNCHANGED <<state_dict, train, requires_grad, scale_factor, control_scales,
                   loaded, cond_log>>

\* ldm.<m>.train() without an argument: disabled_train, a plain function set on
\* the instance, is then called without its one parameter and raises TypeError.
SubmoduleTrainDefault(m) ==
    /\ IF train[m] = "disabled_train"
       THEN /\ UNCHANGED training
            /\ last' = [op |-> "train", on |-> m, mode |-> TRUE, outcome |-> "raised"]
       ELSE /\ training' = Module_train(m, TRUE, training)
            /\ last' = [op |-> "train", on |-> m, mode |-> TRUE, outcome |-> "returned"]
    /\ calls' = NoCalls
    /\ UNCHANGED <<state_dict, train, requires_grad, scale_factor, control_scales,
                   loaded, cond_log>>

-----------------------------------------------------------------------------
(* Construction: ControlLDM.__init__ *)

AllModules == Submodules \cup {"ldm"}

\* The facade right after __init__ with the given submodule states and factor.
Constructed(sds, factor) ==
    /\ state_dict = sds
    /\ training = [m \in AllModules |-> TRUE]
    /\ train = [m \in Submodules |-> "Module.train"]
    /\ requires_grad = [m \in Submodules |-> [k \in DOMAIN sds[m] |-> TRUE]]
    /\ scale_factor = factor
    /\ control_scales = [i \in 1..13 |-> 1]
    /\ last = [op |-> "__init__", outcome |-> "returned"]
    /\ calls = NoCalls
    /\ loaded = FALSE
    /\ cond_log = {}

-----------------------------------------------------------------------------
(* The checkpoint adapter on its own: SpecLoad *)

\* The declared keys and shapes of one configuration of the four sub-networks.
BaseShapes ==
    [unet       |-> [k \in {"input_blocks.0.0.weight", "out.2.bias"} |->
                       IF k = "out.2.bias" THEN <<2>> ELSE <<1, 2, 1, 1>>],
     vae        |-> [k \in {"encoder.conv_in.weight"} |-> <<1, 1, 1, 1>>],
     clip       |-> [k \in {"model.positional_embedding"} |-> <<2, 1>>],
     controlnet |-> [k \in {"input_blocks.0.0.weight", "input_hint_block.0.weight"} |->
                       IF k = "input_hint_block.0.weight" THEN <<1, 1, 1, 1>>
                       ELSE <<1, 3, 1, 1>>]]

SeedOf == [unet |-> 1, vae |-> 2, clip |-> 3, controlnet |-> 4]

\* Freshly initialised states of the given shapes.
Scratch(shapes) ==
    [m \in Submodules |-> [k \in DOMAIN shapes[m] |-> Fill(shapes[m][k], SeedOf[m])]]

\* How many different tensors a checkpoint may hold for the denoiser's first key.
NumSeeds == 2

\* What a checkpoint may hold under each key: the declared shape with one of
\* several contents, or a tensor of another shape.
CkptOptions ==
    [ck \in {"model.diffusion_model.input_blocks.0.0.weight",
             "model.diffusion_model.out.2.bias",
             "first_stage_model.encoder.conv_in.weight",
             "cond_stage_model.model.positional_embedding",
             "first_stage_model.out.2.bias"} |->
        CASE ck = "model.diffusion_model.input_blocks.0.0.weight" ->
                 {Fill(<<1, 2, 1, 1>>, 4 + s) : s \in 1..NumSeeds} \cup {Fill(<<1, 3, 1, 1>>, 9)}
          [] ck = "model.diffusion_model.out.2.bias" -> {Fill(<<2>>, 5)}
          [] ck = "first_stage_model.encoder.conv_in.weight" ->
                 {Fill(<<1, 1, 1, 1>>, 5), Fill(<<2, 1, 1, 1>>, 9)}
          [] ck = "cond_stage_model.model.positional_embedding" -> {Fill(<<2, 1>>, 5)}
          [] OTHER -> {Fill(<<2>>, 6)}]

\* Every checkpoint over a subset of those keys.
Checkpoints ==
    UNION {{sd \in [S -> UNION {CkptOptions[ck] : ck \in S}] :
               \A ck \in S : sd[ck] \in CkptOptions[ck]} : S \in SUBSET DOMAIN CkptOptions}

InitLoad == Constructed(Scratch(BaseShapes), 2)

NextLoad == \E sd \in Checkpoints : LoadPretrainedSd(sd)

SpecLoad == InitLoad /\ [][NextLoad]_vars

-----------------------------------------------------------------------------
(* The control branch's bootstrap on its own: SpecBoot *)

\* The largest input-channel count and the largest kernel side of a configuration.
MaxChannels == 3
MaxSide == 2

ConvShapes == {<<oc, ic, h, h>> : oc \in 1..2, ic \in 1..MaxChannels, h \in 1..MaxSide}

\* Configurations: the shapes the denoiser and the control branch declare for
\* the keys they share, and whether the control branch has a key of its own.
BootConfigs ==
    [conv_c : ConvShapes \cup {<<2, 2, 1>>},
     conv_u : ConvShapes \cup {<<2, 1>>, <<2>>},
     lin_c  : {<<2, 1>>, <<2, 2>>},
     lin_u  : {<<2, 1>>, <<2, 2>>},
     bias_c : {<<1>>, <<2>>},
     bias_u : {<<2>>},
     hint   : BOOLEAN]

BootShapes(c) ==
    [unet       |-> [k \in {"input_blocks.0.0.weight", "time_embed.0.weight",
                            "time_embed.0.bias", "out.2.bias"} |->
                       CASE k = "input_blocks.0.0.weight" -> c.conv_u
                         [] k = "time_embed.0.weight" -> c.lin_u
                         [] k = "time_embed.0.bias" -> c.bias_u
                         [] OTHER -> <<2>>],
     vae        |-> BaseShapes["vae"],
     clip       |-> BaseShapes["clip"],
     controlnet |-> [k \in {"input_blocks.0.0.weight", "time_embed.0.weight",
                            "time_embed.0.bias"}
                            \cup (IF c.hint THEN {"input_hint_block.0.weight"} ELSE {}) |->
                       CASE k = "input_blocks.0.0.weight" -> c.conv_c
                         [] k = "time_embed.0.weight" -> c.lin_c
                         [] k = "time_embed.0.bias" -> c.bias_c
                         [] OTHER -> <<1, 1, 1, 1>>]]

\* Control-branch checkpoints for the current control branch: a full one, one
\* short of a key, one with a key too many.
ControlCkpts ==
    LET own  == state_dict["controlnet"]
        full == [k \in DOMAIN own |-> Fill(own[k].size, 7)]
    IN  {full,
         [k \in DOMAIN own \ {"time_embed.0.bias"} |-> full[k]],
         [k \in DOMAIN own \cup {"middle_block_out.0.weight"} |->
             IF k \in DOMAIN own THEN full[k] ELSE Fill(<<1>>, 7)]}

InitBoot == \E c \in BootConfigs : Constructed(Scratch(BootShapes(c)), 2)

NextBoot ==
    \/ LoadControlnetFromUnet
    \/ \E sd \in ControlCkpts : LoadControlnetFromCkpt(sd)

SpecBoot == InitBoot /\ [][NextBoot]_vars

-----------------------------------------------------------------------------
(* Conditioning on its own: SpecCond *)

\* The length of the images and latents.
MaxLen == 3

Images == {[j \in 1..MaxLen |-> IF j = a THEN 0 ELSE 1] : a \in 1..2}

Prompts == {<<"">>, <<"a photo">>}

\* <<tiled, tile_size, tile_stride>>: untiled with the defaults, overlapping
\* tiles, abutting tiles, single-element tiles, a tile larger than the image.
Tilings == {<<FALSE, -1, -1>>, <<TRUE, 2, 1>>, <<TRUE, 2, 2>>, <<TRUE, 1, 1>>, <<TRUE, 8, 8>>}

Noise == {-1, 1}

\* A checkpoint that holds the image autoencoder's and the text encoder's keys.
CondCkpt ==
    [ck \in {"first_stage_model.encoder.conv_in.weight",
             "cond_stage_model.model.positional_embedding"} |->
        IF ck = "first_stage_model.encoder.conv_in.weight"
        THEN Fill(<<1, 1, 1, 1>>, 5) ELSE Fill(<<2, 1>>, 6)]

InitCond == Constructed(Scratch(BaseShapes), 2)

NextCond ==
    \/ \E img \in Images, txt \in Prompts, tl \in Tilings, n \in Noise :
          PrepareCondition(img, txt, tl[1], tl[2], tl[3], n)
    \/ \E img \in Images, sample \in BOOLEAN, tl \in Tilings, n \in Noise :
          VaeEncode(rescale(img), sample, tl[1], tl[2], tl[3], n)
    \/ LoadPretrainedSd(CondCkpt)

SpecCond == InitCond /\ [][NextCond]_vars

-----------------------------------------------------------------------------
(* The forward pass under changing control scales: SpecFwd *)

ScaleValues == {0, 1, 2}

\* How many control scales may differ from the others'.
MaxEdited == 1

NearUniform(cs) ==
    \E v \in ScaleValues : Cardinality({i \in DOMAIN cs : cs[i] # v}) <= MaxEdited

Latents == {[j \in 1..MaxLen |-> IF j = a THEN 2 ELSE 0] : a \in 1..2}

Conds == {[c_txt |-> <<1 + z[1]>>, c_img |-> z] : z \in Latents}

InitFwd == Constructed(Scratch(BaseShapes), 2)

NextFwd ==
    \/ \E v \in ScaleValues : SetControlScales(v)
    \/ \E i \in 1..13, v \in ScaleValues :
          NearUniform([control_scales EXCEPT ![i] = v]) /\ SetControlScale(i, v)
    \/ \E x \in Latents, t \in {0, 1}, cond \in Conds : Forward(x, t, cond)

SpecFwd == InitFwd /\ [][NextFwd]_vars

-----------------------------------------------------------------------------
(* The facade's life: Spec *)

\* A checkpoint whose tensor for the image autoencoder has another shape.
BadCkpt ==
    [ck \in {"model.diffusion_model.out.2.bias",
             "first_stage_model.encoder.conv_in.weight"} |->
        IF ck = "model.diffusion_model.out.2.bias"
        THEN Fill(<<2>>, 5) ELSE Fill(<<2, 1, 1, 1>>, 9)]

OneImage == [j \in 1..MaxLen |-> IF j = 1 THEN 0 ELSE 1]
OneLatent == [j \in 1..MaxLen |-> IF j = 1 THEN 2 ELSE 0]

Init == Constructed(Scratch(BaseShapes), 2)

Next ==
    \/ \E sd \in {CondCkpt, BadCkpt} : LoadPretrainedSd(sd)
    \/ \E mode \in BOOLEAN : FacadeTrain(mode)
    \/ \E m \in Submodules, mode \in BOOLEAN : SubmoduleTrain(m, mode)
    \/ \E m \in Submodules : SubmoduleTrainDefault(m)
    \/ LoadControlnetFromUnet
    \/ \E sd \in ControlCkpts : LoadControlnetFromCkpt(sd)
    \/ \E sample \in BOOLEAN, n \in Noise : VaeEncode(OneImage, sample, TRUE, 2, 1, n)
    \/ VaeDecode(OneLatent, FALSE, -1, -1)
    \/ PrepareCondition(OneImage, <<"a photo">>, FALSE, -1, -1, 1)
    \/ Forward(OneLatent, 1, [c_txt |-> <<1>>, c_img |-> OneLatent])

Spec == Init /\ [][Next]_vars

-----------------------------------------------------------------------------
(* The checkpoint adapter's properties *)

Frozen3 == {"unet", "vae", "clip"}

\* The checkpoint key the specification gives a submodule's key.
PrefixedKey(m, k) ==
    (CASE m = "unet" -> "model.diffusion_model"
       [] m = "vae"  -> "first_stage_model"
       [] m = "clip" -> "cond_stage_model") \o "." \o k

LoadCalled == last.op = "load_pretrained_sd"
LoadReturned == LoadCalled /\ last.outcome = "returned"

\* The prefixed keys of every key the three submodules declared before the call.
DeclaredPrefixed ==
    UNION {{PrefixedKey(m, k) : k \in DOMAIN last.pre[m]} : m \in Frozen3}

\* C1: when load_pretrained_sd(sd) has returned, every declared key of unet, vae
\* and clip whose prefixed key is in sd holds exactly sd's tensor for that key.
C1_PresentKeysCopied ==
    LoadReturned =>
        \A m \in Frozen3 : \A k \in DOMAIN last.pre[m] :
            PrefixedKey(m, k) \in DOMAIN last.sd =>
                state_dict[m][k] = last.sd[PrefixedKey(m, k)]

\* A load that returned and changed a key of each of the three submodules.
C1_Witness ==
    /\ LoadReturned
    /\ \A m \in Frozen3 : \E k \in DOMAIN last.pre[m] :
          /\ PrefixedKey(m, k) \in DOMAIN last.sd
          /\ state_dict[m][k] # last.pre[m][k]
          /\ state_dict[m][k] = last.sd[PrefixedKey(m, k)]

\* C2: a declared key whose prefixed key is not in sd keeps its value, is
\* reported in the returned missing set, which holds nothing else, and never
\* makes the load fail: a load fails only over a key that is present, with a
\* tensor of another size.
C2_AbsentKeysUntouched ==
    LoadCalled =>
        /\ \A m \in Frozen3 : \A k \in DOMAIN last.pre[m] :
              PrefixedKey(m, k) \notin DOMAIN last.sd =>
                  state_dict[m][k] = last.pre[m][k]
        /\ last.outcome = "returned" =>
              last.missing = DeclaredPrefixed \ DOMAIN last.sd
        /\ last.outcome = "raised" =>
              \E m \in Frozen3 : \E k \in DOMAIN last.pre[m] :
                  /\ PrefixedKey(m, k) \in DOMAIN last.sd
                  /\ last.sd[PrefixedKey(m, k)].size # last.pre[m][k].size

\* A load that returned with some keys missing and the others copied.
C2_Witness ==
    /\ LoadReturned
    /\ last.missing # {}
    /\ last.used # {}
    /\ \E m \in Frozen3 : \E k \in DOMAIN last.pre[m] :
          /\ PrefixedKey(m, k) \in last.missing
          /\ state_dict[m][k] = last.pre[m][k]
          /\ state_dict[m][k] # Scratch(BaseShapes)[m][k]

\* C3: of a load that returned, the unused set and the consumed keys are
\* disjoint, together they are the checkpoint's keys, every consumed key was
\* copied into a submodule, and a checkpoint key is unused exactly when it is
\* the prefixed key of no declared key.
C3_UnusedPartition ==
    LoadReturned =>
        /\ last.unused \cap last.used = {}
        /\ last.unused \cup last.used = DOMAIN last.sd
        /\ \A ck \in last.used : \E m \in Frozen3 : \E k \in DOMAIN last.pre[m] :
              ck = PrefixedKey(m, k) /\ state_dict[m][k] = last.sd[ck]
        /\ \A ck \in DOMAIN last.sd : ck \in last.unused <=> ck \notin DeclaredPrefixed

\* A load that returned with both consumed and unused checkpoint keys.
C3_Witness ==
    /\ LoadReturned
    /\ last.unused # {}
    /\ last.used # {}
    /\ last.unused # DOMAIN last.sd

-----------------------------------------------------------------------------
(* The bootstrap's properties *)

BootCalled == last.op = "load_controlnet_from_unet"
BootReturned == BootCalled /\ last.outcome = "returned"

\* this is target with d > 0 more input channels (dimension 1) and nothing else
\* different, both being 4-dimensional.
ExtraInputChannels(this, target) ==
    /\ Len(this.size) = 4 /\ Len(target.size) = 4
    /\ this.size[2] > target.size[2]
    /\ \A i \in {1, 3, 4} : this.size[i] = target.size[i]

\* C5: when every key the control branch declares is in the denoiser's state
\* with the same shape, load_controlnet_from_unet returns, leaves the control
\* branch's every key equal to the denoiser's, and both returned sets are empty.
C5_IdenticalShapesCopied ==
    (/\ BootCalled
     /\ \A k \in DOMAIN last.pre["controlnet"] :
           /\ k \in DOMAIN last.pre["unet"]
           /\ last.pre["controlnet"][k].size = last.pre["unet"][k].size)
    => /\ last.outcome = "returned"
       /\ \A k \in DOMAIN last.pre["controlnet"] :
             state_dict["controlnet"][k] = last.pre["unet"][k]
       /\ state_dict["unet"] = last.pre["unet"]
       /\ last.init_with_new_zero = {}
       /\ last.init_with_scratch = {}

\* Such a bootstrap, which changed the control branch.
C5_Witness ==
    /\ BootReturned
    /\ \A k \in DOMAIN last.pre["controlnet"] :
          /\ k \in DOMAIN last.pre["unet"]
          /\ last.pre["controlnet"][k].size = last.pre["unet"][k].size
          /\ state_dict["controlnet"][k] # last.pre["controlnet"][k]
    /\ \E k \in DOMAIN state_dict["controlnet"] : Len(state_dict["controlnet"][k].size) = 4

\* C6: of a bootstrap that returned, a key whose declared shape is the
\* denoiser's with d > 0 more input channels has the declared shape, the
\* denoiser's tensor in its first N input channels, zero in its last d, and is
\* in the zero-padded set and not in the fresh set.
C6_ZeroPadded ==
    BootReturned =>
        \A k \in DOMAIN last.pre["controlnet"] \cap DOMAIN last.pre["unet"] :
            LET this   == last.pre["controlnet"][k]
                target == last.pre["unet"][k]
                post   == state_dict["controlnet"][k]
            IN  ExtraInputChannels(this, target) =>
                    /\ post.size = this.size
                    /\ DOMAIN post.data = Indices(this.size)
                    /\ \A idx \in Indices(this.size) :
                          IF idx[2] <= target.size[2]
                          THEN post.data[idx] = target.data[idx]
                          ELSE post.data[idx] = 0
                    /\ k \in last.init_with_new_zero
                    /\ k \notin last.init_with_scratch

\* A bootstrap that returned and padded a key with two or more zero channels.
C6_Witness ==
    /\ BootReturned
    /\ \E k \in last.init_with_new_zero :
          /\ ExtraInputChannels(last.pre["controlnet"][k], last.pre["unet"][k])
          /\ last.pre["controlnet"][k].size[2] >= last.pre["unet"][k].size[2] + 2
          /\ last.pre["unet"][k].size[2] >= 1
          /\ state_dict["controlnet"][k] # last.pre["controlnet"][k]

\* A key of the control branch that the denoiser holds with another shape which
\* is not the control branch's with fewer input channels.
BadMismatch(k) ==
    /\ k \in DOMAIN last.pre["controlnet"] \cap DOMAIN last.pre["unet"]
    /\ last.pre["controlnet"][k].size # last.pre["unet"][k].size
    /\ ~ExtraInputChannels(last.pre["controlnet"][k], last.pre["unet"][k])

\* C7: when some key has such a mismatch, load_controlnet_from_unet raises and
\* the control branch's state is what it was before the call.
C7_MismatchRaises ==
    (BootCalled /\ \E k \in DOMAIN last.pre["controlnet"] : BadMismatch(k))
    => /\ last.outcome = "raised"
       /\ state_dict["controlnet"] = last.pre["controlnet"]

\* A bootstrap that raised over fewer input channels than the denoiser's, with
\* another key that could have been loaded.
C7_Witness ==
    /\ BootCalled
    /\ last.outcome = "raised"
    /\ \E k \in DOMAIN last.pre["controlnet"] :
          /\ BadMismatch(k)
          /\ Len(last.pre["controlnet"][k].size) = 4
          /\ Len(last.pre["unet"][k].size) = 4
          /\ last.pre["controlnet"][k].size[2] < last.pre["unet"][k].size[2]
    /\ \E k \in DOMAIN last.pre["controlnet"] \cap DOMAIN last.pre["unet"] :
          /\ last.pre["controlnet"][k].size = last.pre["unet"][k].size
          /\ last.pre["controlnet"][k] # last.pre["unet"][k]
    /\ state_dict["controlnet"] = last.pre["controlnet"]

-----------------------------------------------------------------------------
(* The properties of conditioning and of the forward pass *)

AllZero == \A i \in DOMAIN control_scales : control_scales[i] = 0

\* C8: with every control scale zero, each signal forward hands the noise
\* predictor is the control branch's output times zero, and forward returns
\* what the noise predictor returns on (x_noisy, t, c_txt) without control.
C8_ZeroScalesNoControl ==
    (last.op = "forward" /\ AllZero) =>
        /\ Cardinality(calls["unet"]) = 1
        /\ \A u \in calls["unet"] : \A c \in calls["controlnet"] :
              /\ Len(u.control) = Len(c.out)
              /\ \A i \in 1..Len(c.out) : \A j \in 1..Len(c.out[i]) :
                    u.control[i][j] = c.out[i][j] * 0
              /\ u.x = last.x_noisy /\ u.timesteps = last.t /\ u.context = last.cond.c_txt
        /\ last.eps = unet_run(last.x_noisy, last.t, last.cond.c_txt, <<>>, FALSE)

\* A forward pass under all-zero scales whose control branch output is not zero.
C8_Witness ==
    /\ last.op = "forward"
    /\ AllZero
    /\ \E c \in calls["controlnet"] : \A i \in 1..13 : \E j \in 1..Len(c.out[i]) : c.out[i][j] # 0

\* C10: every forward hands the noise predictor thirteen signals, the i-th being
\* the control branch's i-th output times the i-th control scale, in tap order,
\* with only_mid_control false.
C10_OneSignalPerTap ==
    last.op = "forward" =>
        /\ Cardinality(calls["unet"]) = 1
        /\ Cardinality(calls["controlnet"]) = 1
        /\ \A u \in calls["unet"] : \A c \in calls["controlnet"] :
              /\ Len(c.out) = 13
              /\ Len(u.control) = 13
              /\ \A i \in 1..13 :
                    u.control[i] = [j \in 1..Len(c.out[i]) |-> c.out[i][j] * control_scales[i]]
              /\ u.only_mid_control = FALSE
              /\ c.x = last.x_noisy /\ c.hint = last.cond.c_img
              /\ c.timesteps = last.t /\ c.context = last.cond.c_txt

\* A forward pass after the caller set one tap's scale apart from the others.
C10_Witness ==
    /\ last.op = "forward"
    /\ control_scales[13] = 2
    /\ control_scales[1] = 0
    /\ \A u \in calls["unet"] : u.control[13] # u.control[12]

-----------------------------------------------------------------------------
(* Freezing *)

\* C4: once load_pretrained_sd has returned, unet, vae and clip are in
\* evaluation mode with no parameter trainable, and stay so through every
\* later operation on the facade.
C4_FrozenForGood ==
    loaded =>
        \A m \in {"unet", "vae", "clip"} :
            /\ training[m] = FALSE
            /\ \A k \in DOMAIN requires_grad[m] : requires_grad[m][k] = FALSE

\* After the load, the facade was switched to training, the control branch was
\* loaded from the denoiser, and training was requested of the denoiser itself.
C4_Witness ==
    /\ loaded
    /\ last.op = "train" /\ last.on = "unet" /\ last.mode = TRUE /\ last.outcome = "returned"
    /\ training["ldm"] = TRUE
    /\ training["controlnet"] = TRUE
    /\ state_dict["controlnet"] # Scratch(BaseShapes)["controlnet"]

====
